---- MODULE Spec2Model ----
(***************************************************************************)
(* Verification model of the FIRE projection engine of src/app.py:         *)
(* processar_simulacao (simulation run and record store),                  *)
(* calcular_fire / calcular_coast_fire, and                                *)
(* calcular_resumo_fire_dashboard (progress evaluator).                    *)
(*                                                                         *)
(* Python floats are modelled by exact rational arithmetic (a pair n/d in  *)
(* lowest terms), extended with +inf, -inf and nan where the code can      *)
(* produce them (float("inf") at app.py:245).  Python exceptions are       *)
(* values: an operator that can raise returns [exc |-> <<type>>, v |-> _]. *)
(* None is the empty sequence <<>>, a present value v is <<v>>.            *)
(***************************************************************************)
EXTENDS Integers, Sequences, FiniteSets

VARIABLES relogio, simulacoes, utilizador, reforcos, chamada, ret, sessoes

vars == <<relogio, simulacoes, utilizador, reforcos, chamada, ret, sessoes>>

None == <<>>

Some(v) == <<v>>

(***************************************************************************)
(* Float arithmetic, exact.                                                *)
(***************************************************************************)
Abs(x) == IF x < 0 THEN -x ELSE x

RECURSIVE MDC(_, _)
MDC(a, b) == IF b = 0 THEN a ELSE MDC(b, a % b)

\* the float n/d, in lowest terms with d > 0
Rat(n, d) ==
    LET s == IF d < 0 THEN -1 ELSE 1
        g == MDC(Abs(n), Abs(d))
    IN  [k |-> "fin", n |-> (s * n) \div g, d |-> Abs(d) \div g]

Num(i) == [k |-> "fin", n |-> i, d |-> 1]

Inf == [k |-> "inf", n |-> 1, d |-> 1]

NegInf == [k |-> "inf", n |-> -1, d |-> 1]

NaN == [k |-> "nan", n |-> 0, d |-> 1]

Sinal(x) == IF x.n > 0 THEN 1 ELSE IF x.n < 0 THEN -1 ELSE 0

EFinito(x) == x.k = "fin"

\* a * b (IEEE: inf * 0 = nan)
Mul(a, b) ==
    IF a.k = "nan" \/ b.k = "nan" THEN NaN
    ELSE IF a.k = "inf" \/ b.k = "inf"
         THEN IF Sinal(a) * Sinal(b) = 0 THEN NaN
              ELSE IF Sinal(a) * Sinal(b) > 0 THEN Inf ELSE NegInf
    ELSE LET g1 == MDC(Abs(a.n), b.d)
             g2 == MDC(Abs(b.n), a.d)
         IN  [k |-> "fin",
              n |-> (a.n \div g1) * (b.n \div g2),
              d |-> (a.d \div g2) * (b.d \div g1)]

Neg(a) == IF a.k = "nan" THEN NaN ELSE [a EXCEPT !.n = -a.n]

\* a + b (IEEE: inf + -inf = nan)
Soma(a, b) ==
    IF a.k = "nan" \/ b.k = "nan" THEN NaN
    ELSE IF a.k = "inf" /\ b.k = "inf"
         THEN IF a.n = b.n THEN a ELSE NaN
    ELSE IF a.k = "inf" THEN a
    ELSE IF b.k = "inf" THEN b
    ELSE LET g == MDC(a.d, b.d)
             l == (a.d \div g) * b.d
         IN  Rat(a.n * (l \div a.d) + b.n * (l \div b.d), l)

Sub(a, b) == Soma(a, Neg(b))

\* a / b for b # 0 (the callers decide what a zero divisor raises)
Div(a, b) ==
    IF a.k = "nan" \/ b.k = "nan" THEN NaN
    ELSE IF b.k = "inf"
         THEN IF a.k = "inf" THEN NaN ELSE Num(0)
    ELSE Mul(a, [k |-> "fin", n |-> Sinal(b) * b.d, d |-> Abs(b.n)])

\* a < b (IEEE: every comparison with nan is False)
Menor(a, b) ==
    IF a.k = "nan" \/ b.k = "nan" THEN FALSE
    ELSE IF a.k = "inf" THEN a.n < 0 /\ ~(b.k = "inf" /\ b.n < 0)
    ELSE IF b.k = "inf" THEN b.n > 0
    ELSE LET g == MDC(a.d, b.d)
         IN  a.n * (b.d \div g) < b.n * (a.d \div g)

Maior(a, b) == Menor(b, a)

Igual(a, b) == a.k # "nan" /\ b.k # "nan" /\ a = b

MaiorIgual(a, b) == Maior(a, b) \/ Igual(a, b)

AbsF(a) == IF a.k = "nan" THEN NaN ELSE [a EXCEPT !.n = Abs(a.n)]

\* b ** e for a finite float b and an int e >= 0 (Python: x ** 0 == 1.0, also for x == 0)
RECURSIVE PotNat(_, _)
PotNat(b, e) == IF e = 0 THEN Num(1) ELSE Mul(b, PotNat(b, e - 1))

\* b ** e for a finite float b and an int e: 0.0 ** negative raises ZeroDivisionError
Pot(b, e) ==
    IF e >= 0 THEN [exc |-> None, v |-> PotNat(b, e)]
    ELSE IF b.n = 0 THEN [exc |-> Some("ZeroDivisionError"), v |-> NaN]
    ELSE [exc |-> None, v |-> Div(Num(1), PotNat(b, -e))]

(***************************************************************************)
(* b ** (k/12) for a float b and k in 0..11 (app.py:79).  Python gives 1.0 *)
(* for exponent 0.0, 0.0 for base 0.0, and a complex number for a negative *)
(* base with a fractional exponent.  For b > 0 the value is r^k with r the *)
(* twelfth root of b; the model's rates are chosen with 1 + rate a perfect *)
(* twelfth power (1/4096, 1, 4096) so that the root is an exact rational.  *)
(***************************************************************************)
Complexo == [k |-> "complexo", n |-> 0, d |-> 1]

Raizes == {Rat(1, 2), Num(1), Num(2)}

Raiz12(b) == CHOOSE r \in Raizes : PotNat(r, 12) = b

PotFrac(b, k) ==
    IF k = 0 \/ b = Num(1) THEN Num(1)
    ELSE IF b.n < 0 THEN Complexo
    ELSE IF b.n = 0 THEN Num(0)
    ELSE PotNat(Raiz12(b), k)

(***************************************************************************)
(* Calendar.  The clock is a day number; DataDe gives its calendar date,   *)
(* which strftime("%Y-%m-%d") renders injectively, so the date record      *)
(* stands for the string.  Day 1 is 2024-12-30: the days cross a month and *)
(* a year boundary.                                                        *)
(***************************************************************************)
DataDe(i) ==
    IF i <= 2 THEN [ano |-> 2024, mes |-> 12, dia |-> 29 + i]
    ELSE [ano |-> 2025, mes |-> 1, dia |-> i - 2]

SemData == [ano |-> 0, mes |-> 0, dia |-> 0]

\* (a.month, a.day) < (b.month, b.day), Python tuple order
AntesNoAno(a, b) == a.mes < b.mes \/ (a.mes = b.mes /\ a.dia < b.dia)

\* the birthday test forgotten: the year difference alone
IdadeEmSemAniversario(hoje, nasc) == hoje.ano - nasc.ano

\* app.py:54 and app.py:222
IdadeEm(hoje, nasc) == hoje.ano - nasc.ano - (IF AntesNoAno(hoje, nasc) THEN 1 ELSE 0)

calcular_idade(hoje, nasc) == IdadeEm(hoje, nasc)

(***************************************************************************)
(* The input bag (entradas).  A field is absent, or a text that is not a   *)
(* number ("lixo"), or a decimal text written with "." or with ",".        *)
(***************************************************************************)
Ausente == [t |-> "ausente", sep |-> ".", v |-> Num(0)]

Lixo == [t |-> "lixo", sep |-> ".", v |-> Num(0)]

Ponto(v) == [t |-> "dec", sep |-> ".", v |-> v]

Virgula(v) == [t |-> "dec", sep |-> ",", v |-> v]

Ok(v) == [exc |-> None, v |-> v]

Raise(tipo) == [exc |-> Some(tipo), v |-> NaN]

\* entradas[k]: KeyError when the key is absent
Indexar(campo) == IF campo.t = "ausente" THEN Raise("KeyError") ELSE Ok(campo)

\* entradas.get(k, "0")
Obter(campo) == IF campo.t = "ausente" THEN Ponto(Num(0)) ELSE campo

\* s.replace(",", ".")
Replace(campo) == IF campo.t = "dec" THEN [campo EXCEPT !.sep = "."] ELSE campo

\* float(s): only a decimal text written with "." parses
PyFloat(campo) ==
    IF campo.t = "dec" /\ campo.sep = "." THEN Ok(campo.v) ELSE Raise("ValueError")

\* int(x) of an age field: the form passes an int; a text that is no integer raises
PyInt(campo) ==
    IF campo.t = "dec" /\ campo.sep = "." /\ campo.v.d = 1 THEN Ok(campo.v)
    ELSE Raise("ValueError")

\* float(entradas[k].replace(",", "."))
LerFloat(campo) ==
    IF Indexar(campo).exc # None THEN Indexar(campo) ELSE PyFloat(Replace(campo))

\* float(entradas.get(k, "0").replace(",", "."))
LerFloatOpc(campo) == PyFloat(Replace(Obter(campo)))

\* int(entradas[k])
LerInt(campo) ==
    IF Indexar(campo).exc # None THEN Indexar(campo) ELSE PyInt(campo)

(***************************************************************************)
(* app.py:39-46                                                            *)
(***************************************************************************)
\* a zero rate is silently clamped to 1%
calcular_fire_limitado(despesas_anuais, swr) ==
    IF swr.n = 0 THEN Ok(Div(despesas_anuais, Rat(1, 100)))
    ELSE Ok(Div(despesas_anuais, swr))

calcular_fire(despesas_anuais, swr) ==
    IF swr.n = 0 THEN Raise("ZeroDivisionError") ELSE Ok(Div(despesas_anuais, swr))

\* the discount runs one year too long
calcular_coast_fire_mais_um(despesas_anuais, swr, taxa_ajustada, anos_ate_reforma) ==
    LET fire == calcular_fire(despesas_anuais, swr)
        pot == Pot(Soma(Num(1), taxa_ajustada), anos_ate_reforma + 1)
    IN  IF fire.exc # None THEN fire
        ELSE IF pot.exc # None THEN pot
        ELSE IF pot.v.n = 0 THEN Raise("ZeroDivisionError")
        ELSE Ok(Div(fire.v, pot.v))

calcular_coast_fire(despesas_anuais, swr, taxa_ajustada, anos_ate_reforma) ==
    LET fire == calcular_fire(despesas_anuais, swr)
        pot == Pot(Soma(Num(1), taxa_ajustada), anos_ate_reforma)
    IN  IF fire.exc # None THEN fire
        ELSE IF pot.exc # None THEN pot
        ELSE IF pot.v.n = 0 THEN Raise("ZeroDivisionError")
        ELSE Ok(Div(fire.v, pot.v))

(***************************************************************************)
(* The projection loop, app.py:74-80.  A complex total stays complex.      *)
(***************************************************************************)
EComplexo(x) == x.k = "complexo"

SomaC(a, b) == IF EComplexo(a) \/ EComplexo(b) THEN Complexo ELSE Soma(a, b)

MulC(a, b) == IF EComplexo(a) \/ EComplexo(b) THEN Complexo ELSE Mul(a, b)

\* the month loop forgotten: one contribution a year
MesesUmaVez(total, reforco_mensal, base, m) ==
    SomaC(total, MulC(reforco_mensal, PotFrac(base, 11)))

\* for m in range(12): total += reforco_mensal * ((1 + taxa_ajustada) ** ((11 - m) / 12))
RECURSIVE Meses(_, _, _, _)
Meses(total, reforco_mensal, base, m) ==
    IF m = 12 THEN total
    ELSE Meses(SomaC(total, MulC(reforco_mensal, PotFrac(base, 11 - m))),
               reforco_mensal, base, m + 1)

\* for ano in range(anos_ate_reforma + 1): total *= base; <months>; append(total)
RECURSIVE Anos(_, _, _, _, _, _)
Anos(total, reforco_mensal, base, ano, anos_ate_reforma, valores_proj) ==
    IF ano >= anos_ate_reforma + 1 THEN valores_proj
    ELSE LET t == Meses(MulC(total, base), reforco_mensal, base, 0)
         IN  Anos(t, reforco_mensal, base, ano + 1, anos_ate_reforma,
                  Append(valores_proj, t))

\* range(anos_ate_reforma): the last year is missing
ProjecaoSemUltimo(investido, reforco_mensal, taxa_ajustada, anos_ate_reforma) ==
    Anos(investido, reforco_mensal, Soma(Num(1), taxa_ajustada), 0,
         anos_ate_reforma - 1, <<>>)

\* total -= ...: the contributions are withdrawn
ProjecaoRetirada(investido, reforco_mensal, taxa_ajustada, anos_ate_reforma) ==
    Anos(investido, Neg(reforco_mensal), Soma(Num(1), taxa_ajustada), 0,
         anos_ate_reforma, <<>>)

Projecao(investido, reforco_mensal, taxa_ajustada, anos_ate_reforma) ==
    Anos(investido, reforco_mensal, Soma(Num(1), taxa_ajustada), 0,
         anos_ate_reforma, <<>>)

\* any(v >= fire for v in valores_proj), app.py:82: the scan stops at the first
\* True; comparing a complex number raises TypeError
RECURSIVE AnyDesde(_, _, _)
AnyDesde(valores_proj, fire, i) ==
    IF i > Len(valores_proj) THEN Ok(FALSE)
    ELSE IF EComplexo(valores_proj[i]) THEN Raise("TypeError")
    ELSE IF MaiorIgual(valores_proj[i], fire) THEN Ok(TRUE)
    ELSE AnyDesde(valores_proj, fire, i + 1)

\* v > fire: a point equal to the target does not count
AtingiuFireEstrito(valores_proj, fire) ==
    IF \E i \in 1..Len(valores_proj) : EComplexo(valores_proj[i])
    THEN Raise("TypeError")
    ELSE Ok(\E i \in 1..Len(valores_proj) : Maior(valores_proj[i], fire))

AtingiuFire(valores_proj, fire) == AnyDesde(valores_proj, fire, 1)

(***************************************************************************)
(* The user file (utilizador.json), app.py:196-212.  Its content is the    *)
(* value of "data_nascimento": null, "", a date text, or another text.     *)
(***************************************************************************)
NascNull == [t |-> "null", v |-> SemData]

NascVazio == [t |-> "vazio", v |-> SemData]

NascData(d) == [t |-> "data", v |-> d]

NascLixo == [t |-> "lixo", v |-> SemData]

\* returns the loaded data and the file as the call leaves it
carregar_dados_utilizador(ficheiro) ==
    IF ficheiro.estado = "ok"
    THEN [dados |-> ficheiro.nasc, ficheiro |-> ficheiro]
    ELSE [dados |-> NascNull, ficheiro |-> [estado |-> "ok", nasc |-> NascNull]]

\* the truth value of dados_utilizador.get("data_nascimento")
TemNascimento(dados) == dados.t \in {"data", "lixo"}

\* datetime.strptime(s, "%Y-%m-%d").date()
Strptime(dados) == IF dados.t = "data" THEN Ok(dados.v) ELSE Raise("ValueError")

(***************************************************************************)
(* The simulation store (simulacoes.csv): absent, unreadable, or a table   *)
(* of rows; temData says whether the table has a "Data" column.            *)
(***************************************************************************)
LojaAusente == [estado |-> "ausente", temData |-> FALSE, linhas |-> <<>>]

LojaIlegivel == [estado |-> "ilegivel", temData |-> FALSE, linhas |-> <<>>]

LojaVazia == [estado |-> "ok", temData |-> TRUE, linhas |-> <<>>]

\* df[df["Data"] != hoje]
RECURSIVE Filtrar(_, _)
Filtrar(linhas, hoje) ==
    IF linhas = <<>> THEN <<>>
    ELSE IF Head(linhas).Data # hoje
         THEN <<Head(linhas)>> \o Filtrar(Tail(linhas), hoje)
         ELSE Filtrar(Tail(linhas), hoje)

\* pd.concat([new, df]): the new record is put first
GuardarNoInicio(loja, sim_data, hoje) ==
    IF loja.estado = "ausente"
    THEN Ok([estado |-> "ok", temData |-> TRUE, linhas |-> <<sim_data>>])
    ELSE IF loja.estado = "ilegivel" THEN Raise("ParserError")
    ELSE Ok([estado |-> "ok", temData |-> TRUE,
             linhas |-> <<sim_data>> \o (IF loja.temData
                                         THEN Filtrar(loja.linhas, hoje)
                                         ELSE loja.linhas)])

\* the file is overwritten with the new record alone
GuardarSoNovo(loja, sim_data, hoje) ==
    IF loja.estado = "ilegivel" THEN Raise("ParserError")
    ELSE Ok([estado |-> "ok", temData |-> TRUE, linhas |-> <<sim_data>>])

\* app.py:100-109; hoje is the date read at app.py:103
Guardar(loja, sim_data, hoje) ==
    IF loja.estado = "ausente"
    THEN Ok([estado |-> "ok", temData |-> TRUE, linhas |-> <<sim_data>>])
    ELSE IF loja.estado = "ilegivel" THEN Raise("ParserError")
    ELSE Ok([estado |-> "ok", temData |-> TRUE,
             linhas |-> Append(IF loja.temData THEN Filtrar(loja.linhas, hoje)
                               ELSE loja.linhas, sim_data)])

\* the record is written whatever guardar says
EscritaSempre(guardar, loja, sim_data, hoje) == Guardar(loja, sim_data, hoje)

\* if guardar: ..., app.py:100
Escrita(guardar, loja, sim_data, hoje) ==
    IF guardar THEN Guardar(loja, sim_data, hoje) ELSE Ok(loja)

(***************************************************************************)
(* processar_simulacao, app.py:48-120.                                     *)
(* d53, d85, d103 are the dates the clock gives at app.py:53, :85, :103.   *)
(***************************************************************************)
\* the first exception of a sequence of evaluations, in program order
RECURSIVE PrimeiraExc(_)
PrimeiraExc(rs) ==
    IF rs = <<>> THEN None
    ELSE IF Head(rs) # None THEN Head(rs)
    ELSE PrimeiraExc(Tail(rs))

\* app.py:50-56: the age from the stored birth date, else the entered age
IdadeAtual(dados, entradas, d53) ==
    IF TemNascimento(dados)
    THEN IF Strptime(dados).exc # None THEN Strptime(dados)
         ELSE Ok(IdadeEm(d53, Strptime(dados).v))
    ELSE IF LerInt(entradas.idade_atual).exc # None THEN LerInt(entradas.idade_atual)
         ELSE Ok(LerInt(entradas.idade_atual).v.n)

\* app.py:84-97
SimData(d85, idade_atual, idade_reforma, swr, despesas, investido, retorno, inflacao, valor_portefolio, reforco_mensal, fire, coast) ==
    [Data |-> d85,
     IdadeAtual |-> idade_atual,
     IdadeReforma |-> idade_reforma,
     SWR |-> Mul(swr, Num(100)),
     Despesas |-> despesas,
     Investido |-> investido,
     Retorno |-> Mul(retorno, Num(100)),
     Inflacao |-> Mul(inflacao, Num(100)),
     ValorPortefolio |-> valor_portefolio,
     ReforcoMensal |-> reforco_mensal,
     FIRE |-> fire,
     CoastFIRE |-> coast]

\* the body of the try block: what it raises, what it returns, and the files after it
Corpo(entradas, guardar, ficheiro, loja, d53, d85, d103) ==
    LET cu == carregar_dados_utilizador(ficheiro)
        Falha(tipo) ==
            [exc |-> tipo, resultado |-> None, loja |-> loja, utilizador |-> cu.ficheiro]
        r_idade_atual == IdadeAtual(cu.dados, entradas, d53)
        r_idade_reforma == LerInt(entradas.idade_reforma)
        r_swr == LerFloat(entradas.swr)
        r_despesas == LerFloat(entradas.despesas)
        r_investido == LerFloat(entradas.investido)
        r_retorno == LerFloat(entradas.retorno)
        r_inflacao == LerFloat(entradas.inflacao)
        r_valor_portefolio == LerFloatOpc(entradas.valor_portefolio)
        r_reforco_mensal == LerFloatOpc(entradas.reforco_mensal)
        leitura == PrimeiraExc(<<r_idade_atual.exc, r_idade_reforma.exc, r_swr.exc,
                                 r_despesas.exc, r_investido.exc, r_retorno.exc,
                                 r_inflacao.exc, r_valor_portefolio.exc,
                                 r_reforco_mensal.exc>>)
        idade_atual == r_idade_atual.v
        idade_reforma == r_idade_reforma.v.n
        swr == Div(r_swr.v, Num(100))
        despesas == r_despesas.v
        investido == r_investido.v
        retorno == Div(r_retorno.v, Num(100))
        inflacao == Div(r_inflacao.v, Num(100))
        valor_portefolio == r_valor_portefolio.v
        reforco_mensal == r_reforco_mensal.v
        taxa_ajustada == Sub(retorno, inflacao)
        anos_ate_reforma == idade_reforma - idade_atual
        fire == calcular_fire(despesas, swr)
        coast == calcular_coast_fire(despesas, swr, taxa_ajustada, anos_ate_reforma)
        valores_proj == Projecao(investido, reforco_mensal, taxa_ajustada, anos_ate_reforma)
        atingiu_fire == AtingiuFire(valores_proj, fire.v)
        sim_data == SimData(d85, idade_atual, idade_reforma, swr, despesas, investido,
                            retorno, inflacao, valor_portefolio, reforco_mensal,
                            fire.v, coast.v)
        escrita == Escrita(guardar, loja, sim_data, d103)
    IN  IF leitura # None THEN Falha(leitura)
        ELSE IF fire.exc # None THEN Falha(fire.exc)
        ELSE IF coast.exc # None THEN Falha(coast.exc)
        ELSE IF atingiu_fire.exc # None THEN Falha(atingiu_fire.exc)
        ELSE IF escrita.exc # None THEN Falha(escrita.exc)
        ELSE [exc |-> None,
              resultado |-> Some([fire |-> fire.v,
                                  coast |-> coast.v,
                                  projecao |-> valores_proj,
                                  atingiu_fire |-> atingiu_fire.v,
                                  sim_data |-> sim_data]),
              loja |-> escrita.v,
              utilizador |-> cu.ficheiro]

\* except ValueError: the other exceptions leave the function
ApanhaValueError(tipo) == tipo = "ValueError"

\* except Exception (app.py:119): every exception the body raises is one
Apanha(tipo) == TRUE

\* the value the call returns: (resultado, None), (None, str(e)), or an exception
\* that leaves the function
Retorno(corpo) ==
    IF corpo.exc = None
    THEN [resultado |-> corpo.resultado, erro |-> None, propagada |-> None]
    ELSE IF Apanha(corpo.exc[1])
         THEN [resultado |-> None, erro |-> corpo.exc, propagada |-> None]
         ELSE [resultado |-> None, erro |-> None, propagada |-> corpo.exc]

(***************************************************************************)
(* The contribution ledger (reforcos.csv), read at app.py:264-273: absent, *)
(* unreadable, or a table whose "Data" cells are date texts or texts that  *)
(* pd.to_datetime(errors="coerce") turns into NaT (None here).             *)
(***************************************************************************)
LedgerAusente == [estado |-> "ausente", temData |-> FALSE, datas |-> <<>>]

LedgerVazio == [estado |-> "ok", temData |-> TRUE, datas |-> <<>>]

Ledger(datas) == [estado |-> "ok", temData |-> TRUE, datas |-> datas]

DataAntes(a, b) ==
    a.ano < b.ano \/ (a.ano = b.ano /\ AntesNoAno(a, b))

\* dfr["Data"].min(): the earliest date that is not NaT
RECURSIVE MinData(_)
MinData(datas) ==
    IF datas = <<>> THEN None
    ELSE LET resto == MinData(Tail(datas))
         IN  IF Head(datas) = None THEN resto
             ELSE IF resto = None THEN Head(datas)
             ELSE IF DataAntes(Head(datas)[1], resto[1]) THEN Head(datas)
             ELSE resto

\* app.py:265-273
MesesPassados(ledger, hoje) ==
    IF ledger.estado = "ausente" THEN Ok(0)
    ELSE IF ledger.estado = "ilegivel" THEN Raise("ParserError")
    ELSE IF ledger.temData /\ ledger.datas # <<>> /\ MinData(ledger.datas) # None
         THEN LET data_primeira == MinData(ledger.datas)[1]
              IN  Ok((hoje.ano - data_primeira.ano) * 12 + (hoje.mes - data_primeira.mes))
    ELSE Ok(0)

(***************************************************************************)
(* calcular_resumo_fire_dashboard, app.py:223-307.  Every row the program  *)
(* writes holds every column read here (app.py:84-97), so the defaults of  *)
(* ultima.get are not taken.                                               *)
(***************************************************************************)
SemSimulacao == "Nenhuma simulacao FIRE encontrada"

ErroAvaliar == "Erro ao avaliar progresso"

Max(a, b) == IF a > b THEN a ELSE b

\* app.py:245
FireNecessario(despesas_anuais, swr) ==
    IF Maior(swr, Num(0)) THEN Div(despesas_anuais, swr) ELSE Inf

\* app.py:258-262
Prestacao(fire, taxa_mensal, meses) ==
    LET fator == IF meses > 0
                 THEN Sub(PotNat(Soma(Num(1), taxa_mensal), meses), Num(1))
                 ELSE Num(0)
    IN  IF Maior(fator, Num(0)) /\ taxa_mensal.n # 0
        THEN Div(Mul(fire, taxa_mensal), fator)
        ELSE IF meses > 0 THEN Div(fire, Num(meses)) ELSE fire

\* app.py:276-279
ValorEsperadoHoje(pmt, taxa_mensal, meses_passados) ==
    IF taxa_mensal.n # 0
    THEN LET pot == Pot(Soma(Num(1), taxa_mensal), meses_passados)
         IN  IF pot.exc # None THEN pot
             ELSE Ok(Mul(pmt, Div(Sub(pot.v, Num(1)), taxa_mensal)))
    ELSE Ok(Mul(pmt, Num(meses_passados)))

\* 0.05, app.py:285 and :287
Banda == Rat(5, 100)

\* valor_esperado_hoje >= 0: an expected value of 0 is compared
EstadoNaoNegativo(valor_portefolio, valor_esperado_hoje) ==
    LET diferenca == Sub(valor_portefolio, valor_esperado_hoje)
    IN  IF ~Menor(valor_esperado_hoje, Num(0))
        THEN IF Menor(diferenca, Mul(Neg(AbsF(valor_esperado_hoje)), Banda))
             THEN "atrasado"
             ELSE IF Maior(diferenca, Mul(AbsF(valor_esperado_hoje), Banda))
                  THEN "adiantado"
                  ELSE "no_caminho"
        ELSE "sem_historico"

\* app.py:284-292
Estado(valor_portefolio, valor_esperado_hoje) ==
    LET diferenca == Sub(valor_portefolio, valor_esperado_hoje)
    IN  IF Maior(valor_esperado_hoje, Num(0))
        THEN IF Menor(diferenca, Mul(Neg(AbsF(valor_esperado_hoje)), Banda))
             THEN "atrasado"
             ELSE IF Maior(diferenca, Mul(AbsF(valor_esperado_hoje), Banda))
                  THEN "adiantado"
                  ELSE "no_caminho"
        ELSE "sem_historico"

\* the try block, app.py:229-304, on the last row
Avaliar(ultima, ledger, hoje) ==
    LET idade_atual == ultima.IdadeAtual
        idade_objetivo == ultima.IdadeReforma
        despesas_anuais == ultima.Despesas
        valor_portefolio == ultima.ValorPortefolio
        swr == Div(ultima.SWR, Num(100))
        fire == FireNecessario(despesas_anuais, swr)
        retorno == Div(ultima.Retorno, Num(100))
        inflacao == Div(ultima.Inflacao, Num(100))
        taxa_ajustada == Sub(retorno, inflacao)
        taxa_mensal == Div(taxa_ajustada, Num(12))
        anos == Max(0, idade_objetivo - idade_atual)
        meses == anos * 12
        pmt == Prestacao(fire, taxa_mensal, meses)
        meses_passados == MesesPassados(ledger, hoje)
        valor_esperado_hoje == ValorEsperadoHoje(pmt, taxa_mensal, meses_passados.v)
        percentagem == IF Maior(fire, Num(0))
                       THEN Mul(Div(valor_portefolio, fire), Num(100))
                       ELSE Num(0)
    IN  IF meses_passados.exc # None THEN [exc |-> meses_passados.exc, resumo |-> None]
        ELSE IF valor_esperado_hoje.exc # None
             THEN [exc |-> valor_esperado_hoje.exc, resumo |-> None]
        ELSE [exc |-> None,
              resumo |-> Some([fire |-> fire,
                               idade_objetivo |-> idade_objetivo,
                               anos |-> anos,
                               meses_passados |-> meses_passados.v,
                               pmt |-> pmt,
                               taxa_ajustada |-> taxa_ajustada,
                               valor_esperado_hoje |-> valor_esperado_hoje.v,
                               valor_portefolio |-> valor_portefolio,
                               percentagem |-> percentagem,
                               estado |-> Estado(valor_portefolio,
                                                 valor_esperado_hoje.v)])]

\* df.iloc[0]: the first row is evaluated
calcular_resumo_primeira(loja, ledger, hoje) ==
    IF loja.estado = "ausente"
    THEN [resultado |-> None, erro |-> Some(SemSimulacao), propagada |-> None]
    ELSE IF loja.estado = "ilegivel"
         THEN [resultado |-> None, erro |-> Some(ErroAvaliar), propagada |-> None]
    ELSE IF loja.linhas = <<>>
         THEN [resultado |-> None, erro |-> Some(SemSimulacao), propagada |-> None]
    ELSE LET a == Avaliar(loja.linhas[1], ledger, hoje)
         IN  IF a.exc # None
             THEN [resultado |-> None, erro |-> Some(ErroAvaliar), propagada |-> None]
             ELSE [resultado |-> a.resumo, erro |-> None, propagada |-> None]

\* pd.read_csv before the try: what it raises leaves the function
calcular_resumo_sem_try(loja, ledger, hoje) ==
    IF loja.estado = "ausente"
    THEN [resultado |-> None, erro |-> Some(SemSimulacao), propagada |-> None]
    ELSE IF loja.estado = "ilegivel"
         THEN [resultado |-> None, erro |-> None, propagada |-> Some("ParserError")]
    ELSE IF loja.linhas = <<>>
         THEN [resultado |-> None, erro |-> Some(SemSimulacao), propagada |-> None]
    ELSE LET a == Avaliar(loja.linhas[Len(loja.linhas)], ledger, hoje)
         IN  IF a.exc # None
             THEN [resultado |-> None, erro |-> Some(ErroAvaliar), propagada |-> None]
             ELSE [resultado |-> a.resumo, erro |-> None, propagada |-> None]

\* the value the call returns: (resumo, None) or (None, message)
calcular_resumo_fire_dashboard(loja, ledger, hoje) ==
    IF loja.estado = "ausente"
    THEN [resultado |-> None, erro |-> Some(SemSimulacao), propagada |-> None]
    ELSE IF loja.estado = "ilegivel"
         THEN [resultado |-> None, erro |-> Some(ErroAvaliar), propagada |-> None]
    ELSE IF loja.linhas = <<>>
         THEN [resultado |-> None, erro |-> Some(SemSimulacao), propagada |-> None]
    ELSE LET a == Avaliar(loja.linhas[Len(loja.linhas)], ledger, hoje)
         IN  IF a.exc # None
             THEN [resultado |-> None, erro |-> Some(ErroAvaliar), propagada |-> None]
             ELSE [resultado |-> a.resumo, erro |-> None, propagada |-> None]

(***************************************************************************)
(* calcular_simulacao_fire, app.py:122-149: the monthly-stepping variant.  *)
(* The function has no try block: what it raises leaves it.                *)
(***************************************************************************)
\* the loop never breaks: it runs the whole horizon
PassosSemBreak(valor_atual, reforco_mensal, taxa_mensal, objetivo, meses_ate_reforma, valores_fire, valores_coast) ==
    [mes |-> IF meses_ate_reforma = 0 THEN None ELSE Some(meses_ate_reforma - 1),
     valores_fire |->
         [i \in 1..meses_ate_reforma |->
             Soma(Mul(valor_atual, PotNat(Soma(Num(1), taxa_mensal), i)),
                  Mul(reforco_mensal, Num(i)))],
     valores_coast |->
         [i \in 1..meses_ate_reforma |->
             Mul(valor_atual, PotNat(Soma(Num(1), taxa_mensal), i))]]

\* the loop of app.py:132-143 from month Len(valores_fire) on; mes is the
\* loop variable after the loop, None when the loop body never ran
RECURSIVE Passos(_, _, _, _, _, _, _)
Passos(valor_atual, reforco_mensal, taxa_mensal, objetivo, meses_ate_reforma, valores_fire, valores_coast) ==
    LET mes == Len(valores_fire)
        valor_fire == IF mes = 0 THEN valor_atual ELSE valores_fire[mes]
        valor_coast == IF mes = 0 THEN valor_atual ELSE valores_coast[mes]
        novo_fire == Soma(Mul(valor_fire, Soma(Num(1), taxa_mensal)), reforco_mensal)
        novo_coast == Mul(valor_coast, Soma(Num(1), taxa_mensal))
    IN  IF mes >= meses_ate_reforma
        THEN [mes |-> IF mes = 0 THEN None ELSE Some(mes - 1),
              valores_fire |-> valores_fire, valores_coast |-> valores_coast]
        ELSE IF MaiorIgual(novo_fire, objetivo)
             THEN [mes |-> Some(mes),
                   valores_fire |-> Append(valores_fire, novo_fire),
                   valores_coast |-> Append(valores_coast, novo_coast)]
             ELSE Passos(valor_atual, reforco_mensal, taxa_mensal, objetivo,
                         meses_ate_reforma, Append(valores_fire, novo_fire),
                         Append(valores_coast, novo_coast))

\* if mes is not None: (mes + 1) / 12 else 0
AnosAteFire(mes) == IF mes # None THEN Rat(mes[1] + 1, 12) ELSE Num(0)

calcular_simulacao_fire(valor_atual, reforco_mensal, taxa_juros_anual, objetivo, idade_atual, idade_reforma) ==
    LET meses_ate_reforma == Max(0, (idade_reforma - idade_atual) * 12)
        raiz == PotFrac(Soma(Num(1), taxa_juros_anual), 1)
        taxa_mensal == Sub(raiz, Num(1))
        p == Passos(valor_atual, reforco_mensal, taxa_mensal, objetivo,
                    meses_ate_reforma, <<>>, <<>>)
    IN  IF EComplexo(raiz)
        THEN IF meses_ate_reforma > 0 THEN Raise("TypeError")
             ELSE Ok([anos_ate_fire |-> Num(0), valores_fire |-> <<>>,
                      valores_coast |-> <<>>])
        ELSE Ok([anos_ate_fire |-> AnosAteFire(p.mes),
                 valores_fire |-> p.valores_fire,
                 valores_coast |-> p.valores_coast])

(***************************************************************************)
(* The state machine.                                                      *)
(*   relogio     the day the system clock shows                            *)
(*   simulacoes  simulacoes.csv                                            *)
(*   utilizador  utilizador.json                                           *)
(*   reforcos    reforcos.csv (written by the ledger pages, read here)     *)
(*   chamada     the call being made or last made, with its arguments      *)
(*   ret         what the last call returned                               *)
(***************************************************************************)
MaxDia == 2

MaxLinhas == 2

MaxAnos == 2

Dias == 1..MaxDia

Entradas(idade_atual, idade_reforma, swr, despesas, investido, retorno, inflacao, valor_portefolio, reforco_mensal) ==
    [idade_atual |-> idade_atual, idade_reforma |-> idade_reforma, swr |-> swr,
     despesas |-> despesas, investido |-> investido, retorno |-> retorno,
     inflacao |-> inflacao, valor_portefolio |-> valor_portefolio,
     reforco_mensal |-> reforco_mensal]

SemEntradas ==
    Entradas(Ausente, Ausente, Ausente, Ausente, Ausente, Ausente, Ausente,
             Ausente, Ausente)

SemRetorno == [resultado |-> None, erro |-> None, propagada |-> None]

Chamada(op, entradas, guardar) == [op |-> op, entradas |-> entradas, guardar |-> guardar]

\* a browser session of the user with a run of processar_simulacao(entradas,
\* guardar=True) in it: where the run is (parado, ler, escrever, fim), the
\* result it has computed, the hoje it read at app.py:103, the frame df it holds, whether
\* it read the file while the other session held a frame still to be
\* written, and what it returned
Sessao(pc, entradas, resultado, hoje, df, sobreposta, retorno) ==
    [pc |-> pc, entradas |-> entradas, resultado |-> resultado, hoje |-> hoje,
     df |-> df, sobreposta |-> sobreposta, ret |-> retorno]

SessaoParada(entradas) ==
    Sessao("parado", entradas, None, SemData, LojaAusente, FALSE, SemRetorno)

Sessoes == {1, 2}

SessoesParadas == [s \in Sessoes |-> SessaoParada(SemEntradas)]

\* where midnight falls in a run: not at all, between app.py:53 and :85, or
\* between app.py:85 and :103
Viragens == {"nenhuma", "antes85", "antes103"}

\* one call of processar_simulacao(entradas, guardar)
ProcessarSimulacao(entradas, guardar, viragem) ==
    LET d53 == DataDe(relogio)
        d85 == DataDe(IF viragem = "antes85" THEN relogio + 1 ELSE relogio)
        d103 == DataDe(IF viragem = "nenhuma" THEN relogio ELSE relogio + 1)
    IN  /\ viragem # "nenhuma" => relogio < MaxDia
        /\ \E corpo \in {Corpo(entradas, guardar, utilizador, simulacoes, d53, d85, d103)} :
              /\ Len(corpo.loja.linhas) <= MaxLinhas
              /\ simulacoes' = corpo.loja
              /\ utilizador' = corpo.utilizador
              /\ ret' = Retorno(corpo)
        /\ relogio' = (IF viragem = "nenhuma" THEN relogio ELSE relogio + 1)
        /\ chamada' = Chamada("processar_simulacao", entradas, guardar)
        /\ UNCHANGED <<reforcos, sessoes>>

\* one call of calcular_resumo_fire_dashboard()
ResumoDashboard ==
    /\ chamada' = Chamada("calcular_resumo_fire_dashboard", SemEntradas, FALSE)
    /\ ret' = calcular_resumo_fire_dashboard(simulacoes, reforcos, DataDe(relogio))
    /\ UNCHANGED <<relogio, simulacoes, utilizador, reforcos, sessoes>>

\* one call of calcular_simulacao_fire(...), its arguments in chamada.entradas
SimulacaoFire(a) ==
    /\ chamada' = Chamada("calcular_simulacao_fire", a, FALSE)
    /\ \E r \in {calcular_simulacao_fire(a.valor_atual, a.reforco_mensal,
                                           a.taxa_juros_anual, a.objetivo,
                                           a.idade_atual, a.idade_reforma)} :
          ret' = IF r.exc = None
                 THEN [resultado |-> Some(r.v), erro |-> None, propagada |-> None]
                 ELSE [resultado |-> None, erro |-> None, propagada |-> r.exc]
    /\ UNCHANGED <<relogio, simulacoes, utilizador, reforcos, sessoes>>

\* midnight passes between two calls
PassarDia ==
    /\ relogio < MaxDia
    /\ relogio' = relogio + 1
    /\ UNCHANGED <<simulacoes, utilizador, reforcos, chamada, ret, sessoes>>

\* the system clock is set back a day
RecuarRelogio ==
    /\ relogio > 1
    /\ relogio' = relogio - 1
    /\ UNCHANGED <<simulacoes, utilizador, reforcos, chamada, ret, sessoes>>

(***************************************************************************)
(* Spec: a session running simulations and opening the dashboard.  The     *)
(* files start as _init_user_files leaves them (app.py:308-321), or absent *)
(* or unreadable for the store.                                            *)
(***************************************************************************)
N(i) == Ponto(Num(i))

\* fire 100, real rate 0, 88 + 12 * 1 = 100 after the first year
EntradaA == Entradas(N(30), N(31), N(4), N(4), N(88), N(2), N(2), N(88), N(1))

\* decimal commas; fire 1200
EntradaB ==
    Entradas(N(30), N(32), Virgula(Num(4)), Virgula(Num(48)), Virgula(Num(0)),
             Virgula(Rat(5, 2)), Virgula(Rat(5, 2)), Virgula(Num(950)),
             Virgula(Num(0)))

\* swr 0
EntradaSwr0 == [EntradaA EXCEPT !.swr = N(0)]

\* a negative swr, which the run accepts
EntradaSwrNeg == [EntradaA EXCEPT !.swr = N(-4)]

\* a text that is no number
EntradaLixo == [EntradaA EXCEPT !.despesas = Lixo]

\* a missing key
EntradaSemChave == [EntradaA EXCEPT !.retorno = Ausente]

\* no entered age
EntradaSemIdade == [EntradaA EXCEPT !.idade_atual = Ausente]

EntradasLoja == {EntradaA, EntradaSwr0, EntradaSwrNeg, EntradaLixo}

UtilizadorInicial == [estado |-> "ok", nasc |-> NascVazio]

LedgerInicial == Ledger(<<Some([ano |-> 2024, mes |-> 2, dia |-> 15])>>)

Init ==
    /\ relogio = 1
    /\ simulacoes \in {LojaVazia, LojaAusente, LojaIlegivel}
    /\ utilizador = UtilizadorInicial
    /\ reforcos = LedgerInicial
    /\ chamada = Chamada("nenhuma", SemEntradas, FALSE)
    /\ ret = SemRetorno
    /\ sessoes = SessoesParadas

Next ==
    \/ \E e \in EntradasLoja, g \in BOOLEAN, v \in Viragens : ProcessarSimulacao(e, g, v)
    \/ ResumoDashboard
    \/ PassarDia
    \/ RecuarRelogio

Spec == Init /\ [][Next]_vars

(***************************************************************************)
(* SpecCalc: one call on drawn inputs.  The initial state holds the call   *)
(* to make and the files it finds; the only step makes the call.           *)
(*                                                                         *)
(* Rates are drawn so that 1 + rate is 4096, 1, 1/4096, 0 or -1.  TLC's    *)
(* integers have 32 bits: a bag with a rate other than 0 keeps to a        *)
(* horizon of at most one year, where the exact values still fit.          *)
(***************************************************************************)
\* (retorno %, inflacao %)
Taxas ==
    {<<Num(2), Num(2)>>, <<Num(409500), Num(0)>>, <<Num(0), Rat(409500, 4096)>>,
     <<Num(0), Num(100)>>, <<Num(0), Num(200)>>}

EntradasCalc ==
    {Entradas(N(30), N(r), N(s), N(4), N(i), Ponto(t[1]), Ponto(t[2]), N(0), N(c)) :
        r \in 29..(30 + MaxAnos), s \in {0, 4}, i \in {-10, 0, 88},
        t \in Taxas, c \in {0, 1}}

TaxaZero(e) == e.retorno.v = e.inflacao.v

Representavel(e) == TaxaZero(e) \/ e.idade_reforma.v.n <= 31

Nascimento == [ano |-> 1994, mes |-> 12, dia |-> 31]

UtilizadoresCalc ==
    {[estado |-> "ok", nasc |-> NascData(Nascimento)],
     [estado |-> "ok", nasc |-> NascLixo],
     [estado |-> "ok", nasc |-> NascNull],
     [estado |-> "ilegivel", nasc |-> NascNull],
     [estado |-> "ausente", nasc |-> NascNull]}

\* a row of simulacoes.csv with the columns the evaluator reads
Linha(data, idade_atual, idade_reforma, swr, despesas, retorno, inflacao, valor_portefolio) ==
    [Data |-> data, IdadeAtual |-> idade_atual, IdadeReforma |-> idade_reforma,
     SWR |-> swr, Despesas |-> despesas, Investido |-> Num(0), Retorno |-> retorno,
     Inflacao |-> inflacao, ValorPortefolio |-> valor_portefolio,
     ReforcoMensal |-> Num(0), FIRE |-> Num(0), CoastFIRE |-> Num(0)]

\* portfolio values around 95% and 105% of the expected values 1000 and 27280/91
Valores ==
    {Num(0), Num(949), Num(950), Num(951), Num(1000), Num(1049), Num(1050),
     Num(1051), Rat(25915, 91), Rat(25916, 91), Rat(28644, 91), Rat(28645, 91)}

\* (retorno %, inflacao %): monthly rates 0, 1, -1/2 and -1
TaxasResumo ==
    {<<Num(2), Num(2)>>, <<Num(1200), Num(0)>>, <<Num(0), Num(600)>>,
     <<Num(0), Num(1200)>>}

LinhasCalc ==
    {Linha(DataDe(1), 30, r, Num(s), Num(48), t[1], t[2], v) :
        r \in {30, 31}, s \in {4, 0, -4}, t \in TaxasResumo, v \in Valores}

LojasCalc ==
    {LojaVazia, LojaAusente, LojaIlegivel}
        \cup {[estado |-> "ok", temData |-> TRUE, linhas |-> <<l>>] : l \in LinhasCalc}

LedgersCalc ==
    {LedgerAusente, LedgerVazio,
     [estado |-> "ilegivel", temData |-> FALSE, datas |-> <<>>],
     Ledger(<<None>>),
     Ledger(<<Some([ano |-> 2024, mes |-> 2, dia |-> 15])>>),
     Ledger(<<None, Some([ano |-> 2024, mes |-> 6, dia |-> 1]),
              Some([ano |-> 2024, mes |-> 2, dia |-> 15])>>),
     Ledger(<<Some([ano |-> 2025, mes |-> 6, dia |-> 1])>>)}

\* arguments of the monthly variant: annual rates with 1 + rate 1, 4096,
\* 1/4096, 0 and -1, and a horizon past one year only at rate 0
ArgumentosMensais ==
    {[valor_atual |-> Num(v), reforco_mensal |-> Num(c), taxa_juros_anual |-> t,
      objetivo |-> Num(o), idade_atual |-> 30, idade_reforma |-> r] :
        v \in {0, 88, 100}, c \in {0, 1},
        t \in {Num(0), Num(4095), Rat(-4095, 4096), Num(-1), Num(-2)},
        o \in {100, 1200}, r \in 29..(30 + MaxAnos)}

InitCalc ==
    /\ relogio \in Dias
    /\ ret = SemRetorno
    /\ sessoes = SessoesParadas
    /\ \/ /\ chamada \in {Chamada("pedir_simulacao", e, g) :
                              e \in {x \in EntradasCalc : Representavel(x)}
                                        \cup EntradasLoja \cup {EntradaB, EntradaSemChave},
                              g \in BOOLEAN}
          /\ simulacoes \in {LojaVazia, LojaAusente, LojaIlegivel}
          /\ utilizador = UtilizadorInicial
          /\ reforcos = LedgerVazio
       \/ /\ chamada \in {Chamada("pedir_simulacao", e, g) :
                              e \in EntradasLoja \cup {EntradaB, EntradaSemIdade},
                              g \in BOOLEAN}
          /\ simulacoes = LojaVazia
          /\ utilizador \in UtilizadoresCalc
          /\ reforcos = LedgerVazio
       \/ /\ chamada = Chamada("pedir_resumo", SemEntradas, FALSE)
          /\ simulacoes \in LojasCalc
          /\ utilizador = UtilizadorInicial
          /\ reforcos \in LedgersCalc
       \/ /\ chamada \in {Chamada("pedir_mensal", a, FALSE) :
                              a \in {x \in ArgumentosMensais :
                                        x.taxa_juros_anual = Num(0)
                                            \/ x.idade_reforma <= 31}}
          /\ simulacoes = LojaVazia
          /\ utilizador = UtilizadorInicial
          /\ reforcos = LedgerVazio

FazerSimulacao ==
    /\ chamada.op = "pedir_simulacao"
    /\ ProcessarSimulacao(chamada.entradas, chamada.guardar, "nenhuma")

FazerResumo ==
    /\ chamada.op = "pedir_resumo"
    /\ ResumoDashboard

FazerMensal ==
    /\ chamada.op = "pedir_mensal"
    /\ SimulacaoFire(chamada.entradas)

NextCalc == FazerSimulacao \/ FazerResumo \/ FazerMensal

SpecCalc == InitCalc /\ [][NextCalc]_vars

(***************************************************************************)
(* SpecConc: two sessions of the same user, each making one run with       *)
(* guardar=True, in threads of the same server.  A run takes three steps:  *)
(* the body up to sim_data (app.py:50-97), the read of the file into a     *)
(* frame with the filter and the concat (app.py:101-108), and to_csv       *)
(* (app.py:109).  The file read and the file write are each atomic; the    *)
(* steps of the two runs interleave freely and midnight can pass between   *)
(* any two of them.                                                        *)
(***************************************************************************)
Outra(s) == 3 - s

\* app.py:50-97 of session s: sim_data is built, dated by the clock read at :85
Preparar(s) ==
    /\ sessoes[s].pc = "parado"
    /\ \E corpo \in {Corpo(sessoes[s].entradas, FALSE, utilizador, simulacoes,
                            DataDe(relogio), DataDe(relogio), DataDe(relogio))} :
          sessoes' = [sessoes EXCEPT ![s] =
              IF corpo.exc = None
              THEN [@ EXCEPT !.pc = "ler", !.resultado = corpo.resultado]
              ELSE [@ EXCEPT !.pc = "fim", !.ret = Retorno(corpo)]]
    /\ UNCHANGED <<relogio, simulacoes, utilizador, reforcos, chamada, ret>>

\* app.py:101-108 of session s: the file is read and the frame to write is made
Ler(s) ==
    /\ sessoes[s].pc = "ler"
    /\ \E g \in {Guardar(simulacoes, sessoes[s].resultado[1].sim_data, DataDe(relogio))} :
          sessoes' = [sessoes EXCEPT ![s] =
              IF g.exc = None
              THEN [@ EXCEPT !.pc = "escrever", !.hoje = DataDe(relogio), !.df = g.v,
                             !.sobreposta = (sessoes[Outra(s)].pc = "escrever")]
              ELSE [@ EXCEPT !.pc = "fim",
                             !.ret = [resultado |-> None, erro |-> g.exc,
                                      propagada |-> None]]]
    /\ UNCHANGED <<relogio, simulacoes, utilizador, reforcos, chamada, ret>>

\* app.py:109-117 of session s: the frame is written and the result returned
Escrever(s) ==
    /\ sessoes[s].pc = "escrever"
    /\ simulacoes' = sessoes[s].df
    /\ sessoes' = [sessoes EXCEPT ![s] =
          [@ EXCEPT !.pc = "fim",
                    !.ret = [resultado |-> sessoes[s].resultado, erro |-> None,
                             propagada |-> None]]]
    /\ UNCHANGED <<relogio, utilizador, reforcos, chamada, ret>>

\* a store with one record, as a save of EntradaA on the first day leaves it
LojaComRegisto ==
    Corpo(EntradaA, TRUE, UtilizadorInicial, LojaVazia, DataDe(1), DataDe(1),
          DataDe(1)).loja

InitConc ==
    /\ relogio = 1
    /\ simulacoes \in {LojaVazia, LojaAusente, LojaIlegivel, LojaComRegisto}
    /\ utilizador = UtilizadorInicial
    /\ reforcos = LedgerInicial
    /\ chamada = Chamada("nenhuma", SemEntradas, FALSE)
    /\ ret = SemRetorno
    /\ sessoes \in [Sessoes -> {SessaoParada(e) : e \in {EntradaA, EntradaSwrNeg, EntradaSwr0}}]

NextConc ==
    \/ \E s \in Sessoes : Preparar(s)
    \/ \E s \in Sessoes : Ler(s)
    \/ \E s \in Sessoes : Escrever(s)
    \/ PassarDia

SpecConc == InitConc /\ [][NextConc]_vars

(***************************************************************************)
(* Properties.                                                             *)
(***************************************************************************)
FoiSimulacao == chamada.op = "processar_simulacao"

FoiResumo == chamada.op = "calcular_resumo_fire_dashboard"

DeuResultado == ret.resultado # None

\* the rows of the store dated d, in order
LinhasDe(d) == SelectSeq(simulacoes.linhas, LAMBDA l : l.Data = d)

DatasNaLoja == {simulacoes.linhas[i].Data : i \in 1..Len(simulacoes.linhas)}

\* C1 (as claimed): the store holds at most one record per date, and after a
\* successful save the only record of the saved record's date is the saved record
C1_UmRegistoPorData ==
    /\ \A d \in DatasNaLoja : Len(LinhasDe(d)) = 1
    /\ (FoiSimulacao /\ chamada.guardar /\ DeuResultado)
          => LinhasDe(ret.resultado[1].sim_data.Data) = <<ret.resultado[1].sim_data>>

\* a successful save has left two records of the date it stamped on its record
C1_Witness ==
    /\ FoiSimulacao /\ chamada.guardar /\ DeuResultado
    /\ Len(LinhasDe(ret.resultado[1].sim_data.Data)) = 2

\* C2: a step changes the store only if it is a run with guardar=True that
\* returns a result and no error
C2_SoGravaComSucesso ==
    [][simulacoes' # simulacoes
          => /\ chamada'.op = "processar_simulacao"
             /\ chamada'.guardar
             /\ ret'.resultado # None
             /\ ret'.erro = None]_vars

\* a run with guardar=True has failed with records in the store
C2_Witness ==
    /\ FoiSimulacao
    /\ chamada.guardar
    /\ ret.erro # None
    /\ simulacoes.estado = "ok"
    /\ simulacoes.linhas # <<>>

Res == ret.resultado[1]

Sd == Res.sim_data

\* every field the run indexes is a decimal text, the ages integers
Legivel(e) ==
    /\ \A c \in {e.idade_atual, e.idade_reforma} : c.t = "dec" /\ c.v.d = 1
    /\ \A c \in {e.swr, e.despesas, e.investido, e.retorno, e.inflacao} : c.t = "dec"
    /\ \A c \in {e.valor_portefolio, e.reforco_mensal} : c.t \in {"dec", "ausente"}

SemNascimento == utilizador.nasc.t \in {"null", "vazio"}

\* C3: a run returns (result, None) or (None, message), and no exception leaves it
C3_UmDosDois ==
    FoiSimulacao =>
        /\ ret.propagada = None
        /\ \/ ret.resultado # None /\ ret.erro = None
           \/ ret.resultado = None /\ ret.erro # None

\* a run with guardar=True has met an unreadable store
C3_Witness == FoiSimulacao /\ ret.erro = Some("ParserError")

SwrZero(e) == e.swr.t = "dec" /\ e.swr.v.n = 0

UltimaLinha == simulacoes.linhas[Len(simulacoes.linhas)]

\* C4: with swr = 0 a run returns an error and no result and persists nothing
\* (the error is the division by zero of calcular_fire when every field parses),
\* and the evaluator's target on a record with swr = 0 is +infinity; neither raises
C4_SwrZero ==
    /\ (FoiSimulacao /\ SwrZero(chamada.entradas))
          => /\ ret.resultado = None
             /\ ret.erro # None
             /\ ret.propagada = None
             /\ simulacoes.linhas = <<>>
             /\ (Legivel(chamada.entradas) /\ SemNascimento)
                   => ret.erro = Some("ZeroDivisionError")
    /\ (FoiResumo /\ simulacoes.estado = "ok" /\ simulacoes.linhas # <<>>
            /\ UltimaLinha.SWR.n = 0)
          => /\ ret.propagada = None
             /\ ret.resultado # None => Res.fire = Inf
             /\ ret.resultado = None => ret.erro = Some(ErroAvaliar)

\* a run with guardar=True and swr = 0 has failed with the division by zero
C4_Witness ==
    /\ FoiSimulacao
    /\ chamada.guardar
    /\ SwrZero(chamada.entradas)
    /\ ret.erro = Some("ZeroDivisionError")

AnosPedidos(e) == e.idade_reforma.v.n - e.idade_atual.v.n

\* C5: the projection has years + 1 points for years >= 0 and none for years < 0;
\* an empty projection has atingiu_fire False; and a run with years < 0 returns a
\* result unless a step before the projection or the save fails
C5_Projecao ==
    FoiSimulacao =>
        /\ DeuResultado =>
              LET anos == Sd.IdadeReforma - Sd.IdadeAtual
              IN  /\ Len(Res.projecao) = (IF anos >= 0 THEN anos + 1 ELSE 0)
                  /\ Res.projecao = <<>> => Res.atingiu_fire = FALSE
        /\ (/\ Legivel(chamada.entradas)
            /\ SemNascimento
            /\ AnosPedidos(chamada.entradas) < 0
            /\ chamada.entradas.swr.v.n # 0
            /\ Sub(chamada.entradas.retorno.v, chamada.entradas.inflacao.v) # Num(-100)
            /\ ~(chamada.guardar /\ simulacoes.estado = "ilegivel"))
              => DeuResultado /\ Res.projecao = <<>>

\* a run with years < 0 has returned a result with an empty projection
C5_Witness ==
    /\ FoiSimulacao
    /\ DeuResultado
    /\ Sd.IdadeReforma < Sd.IdadeAtual
    /\ Res.projecao = <<>>

\* C6: with real rate 0 the point of year y (the y+1-th point) is
\* investido + reforco_mensal * 12 * (y + 1)
C6_Linear ==
    (FoiSimulacao /\ DeuResultado /\ Sd.Retorno = Sd.Inflacao)
        => \A y \in 1..Len(Res.projecao) :
              Res.projecao[y] = Soma(Sd.Investido, Mul(Sd.ReforcoMensal, Num(12 * y)))

\* a run with rate 0 and a contribution has three points, the first above investido
C6_Witness ==
    /\ FoiSimulacao
    /\ DeuResultado
    /\ Sd.Retorno = Sd.Inflacao
    /\ Sd.ReforcoMensal.n > 0
    /\ Len(Res.projecao) >= 3
    /\ Res.projecao[1] # Sd.Investido

NaoDecrescente(p) == \A i \in 1..(Len(p) - 1) : ~Menor(p[i + 1], p[i])

TaxaNaoNegativa == ~Menor(Sd.Retorno, Sd.Inflacao)

\* C7 (as claimed): rate >= 0 and contribution >= 0 give a non-decreasing
\* projection, whatever the initial value
C7_Original ==
    (FoiSimulacao /\ DeuResultado /\ TaxaNaoNegativa /\ Sd.ReforcoMensal.n >= 0)
        => NaoDecrescente(Res.projecao)

\* C7 (amended): rate >= 0, contribution >= 0 and initial value >= 0 give a
\* non-decreasing projection
C7_Monotona ==
    (FoiSimulacao /\ DeuResultado /\ TaxaNaoNegativa /\ Sd.ReforcoMensal.n >= 0
        /\ Sd.Investido.n >= 0)
        => NaoDecrescente(Res.projecao)

\* a run with a positive rate and a positive initial value has grown from one
\* year to the next
C7_Witness ==
    /\ FoiSimulacao
    /\ DeuResultado
    /\ Menor(Sd.Inflacao, Sd.Retorno)
    /\ Sd.ReforcoMensal.n >= 0
    /\ Sd.Investido.n > 0
    /\ Len(Res.projecao) >= 2
    /\ Menor(Res.projecao[1], Res.projecao[2])

\* C8: atingiu_fire is true exactly when some point is >= the FIRE target
C8_AtingiuFire ==
    (FoiSimulacao /\ DeuResultado)
        => (Res.atingiu_fire
               <=> \E i \in 1..Len(Res.projecao) : ~Menor(Res.projecao[i], Res.fire))

\* atingiu_fire is true with a point equal to the target and none above it
C8_Witness ==
    /\ FoiSimulacao
    /\ DeuResultado
    /\ Res.atingiu_fire
    /\ \E i \in 1..Len(Res.projecao) : Res.projecao[i] = Res.fire
    /\ \A i \in 1..Len(Res.projecao) : ~Menor(Res.fire, Res.projecao[i])

\* C9: with zero years to retirement the Coast-FIRE target is the FIRE target
C9_CoastZeroAnos ==
    (FoiSimulacao /\ DeuResultado /\ Sd.IdadeReforma = Sd.IdadeAtual)
        => Res.coast = Res.fire

\* a run with zero years, swr > 0 and a negative real rate has returned a result
C9_Witness ==
    /\ FoiSimulacao
    /\ DeuResultado
    /\ Sd.IdadeReforma = Sd.IdadeAtual
    /\ Sd.SWR.n > 0
    /\ Menor(Sd.Retorno, Sd.Inflacao)

\* the classification the claim gives a portfolio value v against an expected value e
Classe(v, e) ==
    IF Menor(v, Mul(e, Rat(95, 100))) THEN "atrasado"
    ELSE IF Maior(v, Mul(e, Rat(105, 100))) THEN "adiantado"
    ELSE "no_caminho"

\* C10 (as claimed): with a positive expected value the state is behind iff the
\* portfolio is more than 5% below it, ahead iff more than 5% above, else on track
C10_Classificacao ==
    (FoiResumo /\ DeuResultado /\ Maior(Res.valor_esperado_hoje, Num(0)))
        => Res.estado = Classe(Res.valor_portefolio, Res.valor_esperado_hoje)

\* the same for a positive finite expected value, where it holds
C10_ClassificacaoFinita ==
    (FoiResumo /\ DeuResultado /\ Maior(Res.valor_esperado_hoje, Num(0))
        /\ EFinito(Res.valor_esperado_hoje))
        => Res.estado = Classe(Res.valor_portefolio, Res.valor_esperado_hoje)

\* portfolio values exactly 5% below and exactly 5% above, on track
C10_NoLimite ==
    /\ FoiResumo
    /\ DeuResultado
    /\ EFinito(Res.valor_esperado_hoje)
    /\ Res.valor_esperado_hoje.n > 0
    /\ Res.valor_portefolio = Mul(Res.valor_esperado_hoje, Rat(95, 100))
    /\ Res.estado = "no_caminho"

\* an infinite expected value and a finite portfolio value, on track
C10_Witness ==
    /\ FoiResumo
    /\ DeuResultado
    /\ Res.valor_esperado_hoje = Inf
    /\ EFinito(Res.valor_portefolio)
    /\ Res.estado = "no_caminho"

\* the ledger is missing, has no rows, or has no row whose date parses
SemDatas ==
    \/ reforcos.estado = "ausente"
    \/ /\ reforcos.estado = "ok"
       /\ \A i \in 1..Len(reforcos.datas) : reforcos.datas[i] = None

\* C11: with the ledger missing, empty or without a parseable date the months
\* elapsed are 0, the expected value today is not positive and the state is
\* insufficient history; and the state is insufficient history whenever the
\* expected value today is <= 0
C11_SemHistorico ==
    (FoiResumo /\ DeuResultado)
        => /\ SemDatas
                 => /\ Res.meses_passados = 0
                    /\ ~Maior(Res.valor_esperado_hoje, Num(0))
                    /\ Res.estado = "sem_historico"
           /\ (Menor(Res.valor_esperado_hoje, Num(0)) \/ Res.valor_esperado_hoje = Num(0))
                 => Res.estado = "sem_historico"

\* a ledger whose only date does not parse, a positive portfolio value,
\* insufficient history
C11_Witness ==
    /\ FoiResumo
    /\ DeuResultado
    /\ reforcos.estado = "ok"
    /\ reforcos.datas = <<None>>
    /\ Res.valor_portefolio.n > 0
    /\ Res.valor_esperado_hoje = Num(0)
    /\ Res.estado = "sem_historico"

TaxaMensal == Div(Res.taxa_ajustada, Num(12))

MesesObjetivo == Res.anos * 12

\* (1 + monthly_rate) ^ months - 1
Denominador == Sub(PotNat(Soma(Num(1), TaxaMensal), MesesObjetivo), Num(1))

\* C12 (as claimed): with months > 0 the payment is fire * rate / denominator
\* when the monthly rate and the denominator are not 0, negative rates
\* included, and fire / months when the rate is 0
C12_Prestacao ==
    (FoiResumo /\ DeuResultado /\ MesesObjetivo > 0)
        => /\ (TaxaMensal.n # 0 /\ Denominador.n # 0)
                 => Res.pmt = Div(Mul(Res.fire, TaxaMensal), Denominador)
           /\ TaxaMensal.n = 0 => Res.pmt = Div(Res.fire, Num(MesesObjetivo))

\* the same with the formula only where the denominator is positive, and the
\* straight line everywhere else
C12_PrestacaoPositiva ==
    (FoiResumo /\ DeuResultado /\ MesesObjetivo > 0)
        => /\ (TaxaMensal.n # 0 /\ Maior(Denominador, Num(0)))
                 => Res.pmt = Div(Mul(Res.fire, TaxaMensal), Denominador)
           /\ (TaxaMensal.n = 0 \/ ~Maior(Denominador, Num(0)))
                 => Res.pmt = Div(Res.fire, Num(MesesObjetivo))

\* a negative monthly rate above -1, a negative denominator, and the payment
\* is the straight line
C12_Witness ==
    /\ FoiResumo
    /\ DeuResultado
    /\ MesesObjetivo > 0
    /\ EFinito(Res.fire)
    /\ Menor(TaxaMensal, Num(0))
    /\ Menor(Num(-1), TaxaMensal)
    /\ Menor(Denominador, Num(0))
    /\ Res.pmt = Div(Res.fire, Num(MesesObjetivo))
    /\ Res.pmt # Div(Mul(Res.fire, TaxaMensal), Denominador)

FoiMensal == chamada.op = "calcular_simulacao_fire"

HorizonteMensal ==
    Max(0, (chamada.entradas.idade_reforma - chamada.entradas.idade_atual) * 12)

\* some month's with-contributions value is >= the target
AtingiuObjetivo ==
    \E i \in 1..Len(Res.valores_fire) :
        ~Menor(Res.valores_fire[i], chamada.entradas.objetivo)

\* C13 (as claimed): when no month's with-contributions value reaches the
\* target, the years to target returned are 0
C13_NuncaAtingido ==
    (FoiMensal /\ DeuResultado /\ ~AtingiuObjetivo) => Res.anos_ate_fire = Num(0)

\* the same for a horizon of 0 months, where it holds
C13_SemHorizonte ==
    (FoiMensal /\ DeuResultado /\ HorizonteMensal = 0) => Res.anos_ate_fire = Num(0)

\* a whole horizon of 12 months run without reaching the target, and 1 year returned
C13_Witness ==
    /\ FoiMensal
    /\ DeuResultado
    /\ ~AtingiuObjetivo
    /\ Len(Res.valores_fire) = 12
    /\ Res.anos_ate_fire = Num(1)

\* C14: the two trajectories have the same length, at most the horizon; no
\* element of the with-contributions trajectory but the last is >= the target;
\* and when the target is reached the years to target are the length / 12
C14_ParagemAntecipada ==
    (FoiMensal /\ DeuResultado)
        => /\ Len(Res.valores_fire) = Len(Res.valores_coast)
           /\ Len(Res.valores_fire) <= HorizonteMensal
           /\ \A i \in 1..(Len(Res.valores_fire) - 1) :
                 Menor(Res.valores_fire[i], chamada.entradas.objetivo)
           /\ AtingiuObjetivo => Res.anos_ate_fire = Rat(Len(Res.valores_fire), 12)

\* the target is reached before the horizon ends and after the first month
C14_Witness ==
    /\ FoiMensal
    /\ DeuResultado
    /\ AtingiuObjetivo
    /\ Len(Res.valores_fire) > 1
    /\ Len(Res.valores_fire) < HorizonteMensal

\* this year's birthday is still to come on the day of the run
AniversarioPorVir ==
    LET hoje == DataDe(relogio)
        nasc == utilizador.nasc.v
    IN  hoje.mes < nasc.mes \/ (hoje.mes = nasc.mes /\ hoje.dia < nasc.dia)

\* C15: with a birth date stored the age of the record is the year difference,
\* less one when this year's birthday is still to come, whatever age was
\* entered; without one it is the entered age
C15_IdadeDoNascimento ==
    (FoiSimulacao /\ DeuResultado)
        => /\ utilizador.nasc.t = "data"
                 => Sd.IdadeAtual = DataDe(relogio).ano - utilizador.nasc.v.ano
                                       - (IF AniversarioPorVir THEN 1 ELSE 0)
           /\ utilizador.nasc.t \in {"null", "vazio"}
                 => /\ chamada.entradas.idade_atual.t = "dec"
                    /\ Sd.IdadeAtual = chamada.entradas.idade_atual.v.n

\* a run with a birth date stored whose birthday is tomorrow and no entered
\* age at all has returned a record with the age 29
C15_Witness ==
    /\ FoiSimulacao
    /\ DeuResultado
    /\ utilizador.nasc.t = "data"
    /\ AniversarioPorVir
    /\ chamada.entradas.idade_atual.t = "ausente"
    /\ Sd.IdadeAtual = 29

\* C16 (as claimed): no run leaves the birth-date file or the store it saved
\* to unreadable or reports that it could not parse one, and no evaluation
\* leaves the store unreadable or reports that it could not read it
C16_Reposicao ==
    /\ FoiSimulacao
          => /\ utilizador.estado = "ok"
             /\ ret.erro # Some("ParserError")
             /\ chamada.guardar => simulacoes.estado # "ilegivel"
    /\ FoiResumo
          => /\ simulacoes.estado # "ilegivel"
             /\ (reforcos.estado # "ilegivel" /\ simulacoes.estado # "ok")
                   => ret.erro = Some(SemSimulacao)

\* the part about the birth-date file, which holds: after a run the file is
\* readable, and a run on EntradaA returns a result whatever the file was
C16_FicheiroUtilizador ==
    FoiSimulacao
        => /\ utilizador.estado = "ok"
           /\ (chamada.entradas = EntradaA /\ utilizador.nasc.t # "lixo"
                  /\ simulacoes.estado # "ilegivel")
                 => DeuResultado

\* a run with guardar=True on an unreadable store has reported the parse
\* error and left the store unreadable
C16_Witness ==
    /\ FoiSimulacao
    /\ chamada.guardar
    /\ DeuResultado = FALSE
    /\ ret.erro = Some("ParserError")
    /\ simulacoes.estado = "ilegivel"

\* C17: an evaluation raises nothing, returns (summary, None) or (None,
\* message), leaves the store, the ledger and the birth-date file as they were,
\* and with no simulation record returns the no-simulation message
C17_AvaliadorSemEfeitos ==
    [][chamada'.op = "calcular_resumo_fire_dashboard"
          => /\ simulacoes' = simulacoes
             /\ reforcos' = reforcos
             /\ utilizador' = utilizador
             /\ ret'.propagada = None
             /\ \/ ret'.resultado # None /\ ret'.erro = None
                \/ ret'.resultado = None /\ ret'.erro # None
             /\ (simulacoes.estado = "ausente"
                    \/ (simulacoes.estado = "ok" /\ simulacoes.linhas = <<>>))
                   => ret' = [resultado |-> None, erro |-> Some(SemSimulacao),
                              propagada |-> None]]_vars

\* an evaluation of a stored record with an unreadable ledger has returned
\* the evaluator's error message
C17_Witness ==
    /\ FoiResumo
    /\ simulacoes.estado = "ok"
    /\ simulacoes.linhas # <<>>
    /\ reforcos.estado = "ilegivel"
    /\ ret.resultado = None
    /\ ret.erro = Some(ErroAvaliar)

\* session s has saved: its run wrote its frame and returned its result
Gravou(s) == sessoes[s].pc = "fim" /\ sessoes[s].ret.erro = None

\* the two runs did not overlap: neither read the file while the other held
\* a frame still to be written
Sequenciais == \A s \in Sessoes : ~sessoes[s].sobreposta

\* the store lacks the record session s wrote, though the other session
\* neither dated its record with that date nor filtered that date out
RegistoDe(s) == sessoes[s].resultado[1].sim_data

Perdido(s) ==
    /\ \A i \in 1..Len(simulacoes.linhas) : simulacoes.linhas[i] # RegistoDe(s)
    /\ RegistoDe(s).Data # RegistoDe(Outra(s)).Data
    /\ RegistoDe(s).Data # sessoes[Outra(s)].hoje

\* C18: when both saves have completed one after the other, in either order,
\* no record is lost; the witness is the interleaving that loses one
C18_SequencialNaoPerde ==
    ((\A s \in Sessoes : Gravou(s)) /\ Sequenciais)
        => \A s \in Sessoes : ~Perdido(s)

\* both saves completed successfully and the store lacks the record of one
\* of them, written for a date the other did not write
C18_Witness ==
    /\ \A s \in Sessoes : Gravou(s)
    /\ \E s \in Sessoes : Perdido(s)

\* the rows of the store not dated d, in their order
OutrasDatas(d) == SelectSeq(simulacoes.linhas, LAMBDA l : l.Data # d)

FireDoRegisto(l) ==
    IF l.SWR.n > 0 THEN Div(l.Despesas, Div(l.SWR, Num(100))) ELSE Inf

\* C20: a step that changes the store leaves the record just saved as its
\* last row, and an evaluation that returns a summary has evaluated the last
\* row, with the FIRE target computed from that row's SWR and expenses
C20_UltimaLinha ==
    [][/\ simulacoes' # simulacoes
             => /\ ret'.resultado # None
                /\ simulacoes'.linhas # <<>>
                /\ simulacoes'.linhas[Len(simulacoes'.linhas)] = ret'.resultado[1].sim_data
       /\ (chamada'.op = "calcular_resumo_fire_dashboard" /\ ret'.resultado # None)
             => /\ simulacoes.linhas # <<>>
                /\ LET ultima == simulacoes.linhas[Len(simulacoes.linhas)]
                   IN  /\ ret'.resultado[1].fire = FireDoRegisto(ultima)
                       /\ ret'.resultado[1].idade_objetivo = ultima.IdadeReforma
                       /\ ret'.resultado[1].valor_portefolio = ultima.ValorPortefolio]_vars

\* the first row carries the later date, and the evaluation has the target of
\* the last row, which is neither the first row's nor the stored FIRE field
C20_Witness ==
    /\ FoiResumo
    /\ DeuResultado
    /\ Len(simulacoes.linhas) = 2
    /\ simulacoes.linhas[1].Data = DataDe(2)
    /\ simulacoes.linhas[2].Data = DataDe(1)
    /\ Res.fire = FireDoRegisto(simulacoes.linhas[2])
    /\ Res.fire # FireDoRegisto(simulacoes.linhas[1])
    /\ Res.fire # simulacoes.linhas[2].FIRE

\* session s has read the file and made its frame (app.py:102-108)
Leu(s) == sessoes[s].hoje # SemData

\* the record of session s and the filter of session s carry the same date:
\* the clock reads at app.py:85 and app.py:103 fell on the same day
MesmoDia(s) == sessoes[s].hoje = RegistoDe(s).Data

\* C21 (as claimed): through every interleaving of the steps of the two
\* saves, the store holds at most one record per date
C21_UmRegistoPorDataConcorrente ==
    \A d \in DatasNaLoja : Len(LinhasDe(d)) = 1

\* what the code keeps: the frame a session holds or has written is a
\* snapshot without the rows of its hoje, plus its own record as last row
C21_InstantaneoMaisUm ==
    \A s \in Sessoes :
        Leu(s) =>
            /\ sessoes[s].df.linhas # <<>>
            /\ sessoes[s].df.linhas[Len(sessoes[s].df.linhas)] = RegistoDe(s)
            /\ \A i \in 1..(Len(sessoes[s].df.linhas) - 1) :
                  sessoes[s].df.linhas[i].Data # sessoes[s].hoje

\* what the code keeps: while every save that has read the file dated its
\* record with the day of its filter, the store holds one record per date
C21_UmPorDataNoMesmoDia ==
    (\A s \in Sessoes : Leu(s) => MesmoDia(s))
        => \A d \in DatasNaLoja : Len(LinhasDe(d)) = 1

\* both saves completed successfully, one of them read the file while the
\* other held a frame still to be written, and the store holds two records
\* of one date
C21_Witness ==
    /\ \A s \in Sessoes : Gravou(s)
    /\ \E s \in Sessoes : sessoes[s].sobreposta
    /\ \E d \in DatasNaLoja : Len(LinhasDe(d)) = 2

====
